---- MODULE Spec2Model ----
(***************************************************************************)
(* Model of course_work/main.go: the traced Knuth-Morris-Pratt search.     *)
(*                                                                         *)
(* buildFailureFunction and searchKMP are modelled statement by statement: *)
(* one action per loop iteration (per branch of the iteration).  Every     *)
(* variable is a function of the invocation ("call") it belongs to, since  *)
(* all of them are locals of searchKMP / buildFailureFunction; the only    *)
(* state the invocations share is the heap on which make() allocates the   *)
(* []int slices (maxPrefix and every step's PrefixFunction).  Slices are   *)
(* references into that heap, so that aliasing is visible in the model.    *)
(*                                                                         *)
(* Strings are sequences of code units (bytes); Go indices are 0-based and *)
(* are kept 0-based here through At/Set.                                   *)
(***************************************************************************)
EXTENDS Integers, Sequences, FiniteSets, TLC

VARIABLES
    pc,          \* per call: "idle", "start", "build", "fallback", "scan", "done"
    text,        \* per call: argument text
    pattern,     \* per call: argument pattern
    failure,     \* per call: the failure table (buildFailureFunction's failure, then searchKMP's)
    bi,          \* per call: buildFailureFunction's i
    bj,          \* per call: buildFailureFunction's j
    positions,   \* per call: searchKMP's positions
    steps,       \* per call: searchKMP's steps
    comparisons, \* per call: searchKMP's comparisons
    i,           \* per call: searchKMP's i (text cursor)
    j,           \* per call: searchKMP's j (pattern cursor)
    maxPrefix,   \* per call: searchKMP's maxPrefix, a reference into heap (0 = nil)
    heap,        \* the []int arrays allocated by make(), by address 1..Len(heap)
    result       \* per call: the KMPResult returned

vars == <<pc, text, pattern, failure, bi, bj, positions, steps, comparisons,
          i, j, maxPrefix, heap, result>>

(***************************************************************************)
(* Bounds of the model.                                                    *)
(***************************************************************************)
NumChars     == 2   \* distinct code units in the enumerated inputs
MaxTextLen   == 4   \* longest enumerated text of the scan inputs
MaxPatLen    == 3   \* longest enumerated pattern of the scan inputs
MaxBuildLen  == 6   \* longest enumerated pattern of the table-building inputs
MaxPairLen   == 4   \* longest text and pattern together, of two concurrent invocations

Calls == {1, 2}

\* code units 'a', 'b', ...
Alphabet == 97..(96 + NumChars)

\* all strings over Alphabet of length 0..k (the empty string included)
Strings(k) == UNION { [1..l -> Alphabet] : l \in 0..k }

\* the scenarios of the specification, as code units
ScenarioText    == <<65,66,65,66,68,65,66,65,67,68,65,66,65,66,67,65,66,65,66>>
ScenarioPattern == <<65,66,65,66,67,65,66,65,66>>
Scenarios == { <<ScenarioText, ScenarioPattern>>,
               <<(<<97,98,99>>), (<<120,121,122>>)>> }

\* the arguments of a single invocation: short texts with short patterns, the
\* one-character text "a" with longer patterns (for the failure table), and
\* the scenarios
Inputs == (Strings(MaxTextLen) \X Strings(MaxPatLen))
            \cup ({<<97>>} \X Strings(MaxBuildLen))
            \cup Scenarios

\* the arguments of two concurrent invocations
PairInputs ==
    UNION { [1..a -> Alphabet] \X [1..b -> Alphabet] :
              <<a, b>> \in { ab \in (0..MaxPairLen) \X (0..MaxPairLen) :
                                ab[1] + ab[2] <= MaxPairLen } }

(***************************************************************************)
(* Go slices and strings, 0-based.                                         *)
(***************************************************************************)
At(s, k) == s[k + 1]
Set(s, k, v) == [s EXCEPT ![k + 1] = v]
Zeros(k) == [x \in 1..k |-> 0]

n(c) == Len(text[c])
m(c) == Len(pattern[c])

\* h[a][k] = v
Write(h, a, k, v) == [h EXCEPT ![a] = Set(@, k, v)]


(***************************************************************************)
(* The values searchKMP builds.                                            *)
(***************************************************************************)
\* fmt.Sprintf(format, args...): the format (by name) and its arguments
Sprintf(format, args) == [fmt |-> format, args |-> args]

NoResult == [FailureFunction |-> <<>>, Steps |-> <<>>, Found |-> FALSE,
             Positions |-> <<>>, Comparisons |-> 0, Error |-> "none yet"]

\* KMPResult{Error: e}: every other field has its zero value (nil slices, false, 0)
ErrorResult(e) == [FailureFunction |-> <<>>, Steps |-> <<>>, Found |-> FALSE,
                   Positions |-> <<>>, Comparisons |-> 0, Error |-> e]

\* the two input checks of searchKMP, in the order the code makes them
ValidationErrorTextFirst(c) ==
    IF text[c] = <<>> THEN "Text cannot be empty"
    ELSE IF pattern[c] = <<>> THEN "Pattern cannot be empty"
    ELSE ""

ValidationError(c) ==
    IF pattern[c] = <<>> THEN "Pattern cannot be empty"
    ELSE IF text[c] = <<>> THEN "Text cannot be empty"
    ELSE ""

\* maxPrefix := make([]int, n): a fresh zeroed array; <<address, heap after>>
MakeMaxPrefixPackageLevel(h, c) ==
    <<1, IF Len(h) = 0 THEN <<Zeros(n(c))>> ELSE [h EXCEPT ![1] = Zeros(n(c))]>>

MakeMaxPrefix(h, c) == <<Len(h) + 1, Append(h, Zeros(n(c)))>>

\* PrefixFunction: make([]int, n) followed by copy(step.PrefixFunction, maxPrefix):
\* a fresh array holding maxPrefix's current contents; <<address, heap after>>
SnapshotAliased(h, c) == <<maxPrefix[c], h>>

SnapshotNoCopy(h, c) == <<Len(h) + 1, Append(h, Zeros(n(c)))>>

Snapshot(h, c) == <<Len(h) + 1, Append(h, h[maxPrefix[c]])>>

\* comparisons++
NextComparisonsStale(cmp) == cmp

NextComparisons(cmp) == cmp + 1

\* the loop condition of the scan
LoopCondShort(c) == i[c] < n(c) - 1

LoopCond(c) == i[c] < n(c)

\* match := text[i] == pattern[j]
Match(c) == At(text[c], i[c]) = At(pattern[c], j[c])

\* the step built at the head of every iteration (Status and FailureValue are
\* filled in by the branch), a = address of its PrefixFunction
CompareStep(c, cmp, a, status, fv) ==
    [TextIndex |-> i[c], PatternIndex |-> j[c], Match |-> Match(c),
     Shift |-> FALSE, Status |-> status, FailureValue |-> fv,
     Comparisons |-> cmp, PrefixFunction |-> a, HighlightPrefixIndex |-> i[c]]

\* step.PrefixFunction[i] = maxPrefix[i]: the step's own array (address a) takes
\* the entry just updated in maxPrefix (address mp)
RecordMatchOmitted(h, a, mp, ii) == h

RecordMatch(h, a, mp, ii) == Write(h, a, ii, At(h[mp], ii))

\* the start of the match just completed, from the advanced cursors
MatchStartOffByOne(i1, j1) == i1 - j1 + 1

MatchStart(i1, j1) == i1 - j1

\* j = failure[j-1] after a full match
FullMatchShiftRestart(f, j1) == 0

FullMatchShiftNone(f, j1) == j1

FullMatchShift(f, j1) == At(f, j1 - 1)

\* j = failure[j-1] after a mismatch with j > 0
MismatchShiftStay(f, jj) == jj

MismatchShiftDecrement(f, jj) == jj - 1

MismatchShift(f, jj) == At(f, jj - 1)

\* the second step of a full match, from the advanced cursors i1, j1
FullMatchStepNoFailureValue(c, i1, j1, cmp, a) ==
    [TextIndex |-> i1 - 1, PatternIndex |-> j1 - 1, Match |-> TRUE,
     Shift |-> TRUE,
     Status |-> Sprintf("Full pattern match found",
                        <<i1 - j1, At(failure[c], j1 - 1), At(failure[c], j1 - 1)>>),
     FailureValue |-> 0,
     Comparisons |-> cmp, PrefixFunction |-> a, HighlightPrefixIndex |-> -1]

FullMatchStepCounted(c, i1, j1, cmp, a) ==
    [TextIndex |-> i1 - 1, PatternIndex |-> j1 - 1, Match |-> TRUE,
     Shift |-> TRUE,
     Status |-> Sprintf("Full pattern match found",
                        <<i1 - j1, At(failure[c], j1 - 1), At(failure[c], j1 - 1)>>),
     FailureValue |-> At(failure[c], j1 - 1),
     Comparisons |-> cmp + 1, PrefixFunction |-> a, HighlightPrefixIndex |-> -1]

FullMatchStep(c, i1, j1, cmp, a) ==
    [TextIndex |-> i1 - 1, PatternIndex |-> j1 - 1, Match |-> TRUE,
     Shift |-> TRUE,
     Status |-> Sprintf("Full pattern match found",
                        <<i1 - j1, At(failure[c], j1 - 1), At(failure[c], j1 - 1)>>),
     FailureValue |-> At(failure[c], j1 - 1),
     Comparisons |-> cmp, PrefixFunction |-> a, HighlightPrefixIndex |-> -1]

\* the second step of a mismatch with j > 0, jn = the pattern cursor after the shift
ShiftStepStalePattern(c, jn, cmp, a) ==
    [TextIndex |-> i[c], PatternIndex |-> j[c], Match |-> FALSE, Shift |-> TRUE,
     Status |-> Sprintf("Pattern shifted", <<jn, i[c], At(text[c], i[c])>>),
     FailureValue |-> 0,
     Comparisons |-> cmp, PrefixFunction |-> a, HighlightPrefixIndex |-> i[c]]

ShiftStepNoCount(c, jn, cmp, a) ==
    [TextIndex |-> i[c], PatternIndex |-> jn, Match |-> FALSE, Shift |-> TRUE,
     Status |-> Sprintf("Pattern shifted", <<jn, i[c], At(text[c], i[c])>>),
     FailureValue |-> 0,
     Comparisons |-> 0, PrefixFunction |-> a, HighlightPrefixIndex |-> i[c]]

ShiftStep(c, jn, cmp, a) ==
    [TextIndex |-> i[c], PatternIndex |-> jn, Match |-> FALSE, Shift |-> TRUE,
     Status |-> Sprintf("Pattern shifted", <<jn, i[c], At(text[c], i[c])>>),
     FailureValue |-> 0,
     Comparisons |-> cmp, PrefixFunction |-> a, HighlightPrefixIndex |-> i[c]]

\* the loop over the matched span: maxPrefix[k] = k - (i-m) + 1 for i-m <= k < i
RelabelZeroBased(arr, i1, mm) ==
    [x \in 1..Len(arr) |->
        LET k == x - 1
        IN  IF k >= i1 - mm /\ k < i1 THEN k - (i1 - mm) ELSE arr[x]]

Relabel(arr, i1, mm) ==
    [x \in 1..Len(arr) |->
        LET k == x - 1
        IN  IF k >= i1 - mm /\ k < i1 THEN k - (i1 - mm) + 1 ELSE arr[x]]

(***************************************************************************)
(* buildFailureFunction.                                                   *)
(***************************************************************************)
\* j++ ; failure[i] = j when pattern[i] == pattern[j]
MatchedBorderTwice(jj) == jj + 2

MatchedBorder(jj) == jj + 1

\* j = failure[j-1] in the fallback loop
FallbackToZero(f, jj) == 0

Fallback(f, jj) == At(f, jj - 1)

\* the condition of the fallback loop
FallbackCond(c) ==
    bj[c] > 0 /\ At(pattern[c], bi[c]) # At(pattern[c], bj[c])

(***************************************************************************)
(* Initial states.                                                         *)
(***************************************************************************)
Fresh(active, input) ==
    /\ pc = [c \in Calls |-> IF c \in active THEN "start" ELSE "idle"]
    /\ text = [c \in Calls |-> IF c \in active THEN input[1] ELSE <<>>]
    /\ pattern = [c \in Calls |-> IF c \in active THEN input[2] ELSE <<>>]
    /\ failure = [c \in Calls |-> <<>>]
    /\ bi = [c \in Calls |-> 0]
    /\ bj = [c \in Calls |-> 0]
    /\ positions = [c \in Calls |-> <<>>]
    /\ steps = [c \in Calls |-> <<>>]
    /\ comparisons = [c \in Calls |-> 0]
    /\ i = [c \in Calls |-> 0]
    /\ j = [c \in Calls |-> 0]
    /\ maxPrefix = [c \in Calls |-> 0]
    /\ heap = <<>>
    /\ result = [c \in Calls |-> NoResult]

\* one invocation of searchKMP
Init == \E input \in Inputs : Fresh({1}, input)

\* two invocations of searchKMP with the same arguments
InitPair == \E input \in PairInputs : Fresh(Calls, input)

(***************************************************************************)
(* searchKMP, lines 60-65: the input checks.                               *)
(***************************************************************************)
Reject(c) ==
    /\ pc[c] = "start"
    /\ ValidationError(c) # ""
    /\ result' = [result EXCEPT ![c] = ErrorResult(ValidationError(c))]
    /\ pc' = [pc EXCEPT ![c] = "done"]
    /\ UNCHANGED <<text, pattern, failure, bi, bj, positions, steps,
                   comparisons, i, j, maxPrefix, heap>>

(***************************************************************************)
(* buildFailureFunction, lines 36-41: entry, up to the first loop test.    *)
(***************************************************************************)
BuildStart(c) ==
    /\ pc[c] = "start"
    /\ ValidationError(c) = ""
    /\ failure' = [failure EXCEPT ![c] = Set(Zeros(m(c)), 0, 0)]
    /\ bj' = [bj EXCEPT ![c] = 0]
    /\ bi' = [bi EXCEPT ![c] = 1]
    /\ pc' = [pc EXCEPT ![c] = "build"]
    /\ UNCHANGED <<text, pattern, positions, steps, comparisons, i, j,
                   maxPrefix, heap, result>>

\* lines 42-44: pattern[i] == pattern[j]
BuildMatch(c) ==
    /\ pc[c] = "build"
    /\ bi[c] < m(c)
    /\ At(pattern[c], bi[c]) = At(pattern[c], bj[c])
    /\ bj' = [bj EXCEPT ![c] = MatchedBorder(bj[c])]
    /\ failure' = [failure EXCEPT ![c] = Set(@, bi[c], MatchedBorder(bj[c]))]
    /\ bi' = [bi EXCEPT ![c] = @ + 1]
    /\ UNCHANGED <<pc, text, pattern, positions, steps, comparisons, i, j,
                   maxPrefix, heap, result>>

\* line 45: the else branch is entered
BuildMismatch(c) ==
    /\ pc[c] = "build"
    /\ bi[c] < m(c)
    /\ At(pattern[c], bi[c]) # At(pattern[c], bj[c])
    /\ pc' = [pc EXCEPT ![c] = "fallback"]
    /\ UNCHANGED <<text, pattern, failure, bi, bj, positions, steps,
                   comparisons, i, j, maxPrefix, heap, result>>

\* lines 46-48: one iteration of the fallback loop
BuildFallback(c) ==
    /\ pc[c] = "fallback"
    /\ FallbackCond(c)
    /\ bj' = [bj EXCEPT ![c] = Fallback(failure[c], bj[c])]
    /\ UNCHANGED <<pc, text, pattern, failure, bi, positions, steps,
                   comparisons, i, j, maxPrefix, heap, result>>

\* lines 49-53: the fallback loop is left, failure[i] is recorded
BuildSettle(c) ==
    /\ pc[c] = "fallback"
    /\ ~FallbackCond(c)
    /\ LET jn == IF At(pattern[c], bi[c]) = At(pattern[c], bj[c])
                 THEN bj[c] + 1 ELSE bj[c]
       IN  /\ bj' = [bj EXCEPT ![c] = jn]
           /\ failure' = [failure EXCEPT ![c] = Set(@, bi[c], jn)]
    /\ bi' = [bi EXCEPT ![c] = @ + 1]
    /\ pc' = [pc EXCEPT ![c] = "build"]
    /\ UNCHANGED <<text, pattern, positions, steps, comparisons, i, j,
                   maxPrefix, heap, result>>

\* line 55 and searchKMP lines 67-77: the table is returned, the scan is set up
BuildReturn(c) ==
    /\ pc[c] = "build"
    /\ ~(bi[c] < m(c))
    /\ positions' = [positions EXCEPT ![c] = <<>>]
    /\ steps' = [steps EXCEPT ![c] = <<>>]
    /\ comparisons' = [comparisons EXCEPT ![c] = 0]
    /\ i' = [i EXCEPT ![c] = 0]
    /\ j' = [j EXCEPT ![c] = 0]
    /\ LET mk == MakeMaxPrefix(heap, c)
       IN  /\ maxPrefix' = [maxPrefix EXCEPT ![c] = mk[1]]
           /\ heap' = mk[2]
    /\ pc' = [pc EXCEPT ![c] = "scan"]
    /\ UNCHANGED <<text, pattern, failure, bi, bj, result>>

(***************************************************************************)
(* searchKMP, lines 79-160: one action per iteration of the scan loop, for *)
(* each of its branches.                                                   *)
(***************************************************************************)
\* lines 80-132: text[i] == pattern[j], with the full match when j reaches m
ScanMatch(c) ==
    /\ pc[c] = "scan"
    /\ LoopCond(c)
    /\ Match(c)
    /\ LET cmp  == NextComparisons(comparisons[c])
           mp   == maxPrefix[c]
           sn   == Snapshot(heap, c)
           a    == sn[1]
           \* lines 99-101
           h2   == IF j[c] + 1 > At(sn[2][mp], i[c])
                   THEN Write(sn[2], mp, i[c], j[c] + 1) ELSE sn[2]
           \* line 102
           h3   == RecordMatch(h2, a, mp, i[c])
           st   == CompareStep(c, cmp, a,
                      Sprintf("match found",
                              <<i[c], At(text[c], i[c]), j[c], At(pattern[c], j[c]),
                                i[c] + 1, j[c] + 1>>), 0)
           i1   == i[c] + 1
           j1   == j[c] + 1
       IN  /\ comparisons' = [comparisons EXCEPT ![c] = cmp]
           /\ i' = [i EXCEPT ![c] = i1]
           /\ IF j1 = m(c)
              THEN LET \* lines 111-115
                       h4  == [h3 EXCEPT ![mp] = Relabel(@, i1, m(c))]
                       \* lines 126, 129
                       sn2 == Snapshot(h4, c)
                   IN  /\ positions' = [positions EXCEPT
                                           ![c] = Append(@, MatchStart(i1, j1))]
                       /\ steps' = [steps EXCEPT ![c] =
                             Append(Append(@, st),
                                    FullMatchStep(c, i1, j1, cmp, sn2[1]))]
                       /\ heap' = sn2[2]
                       /\ j' = [j EXCEPT ![c] = FullMatchShift(failure[c], j1)]
              ELSE /\ steps' = [steps EXCEPT ![c] = Append(@, st)]
                   /\ heap' = h3
                   /\ j' = [j EXCEPT ![c] = j1]
                   /\ UNCHANGED positions
    /\ UNCHANGED <<pc, text, pattern, failure, bi, bj, maxPrefix, result>>

\* lines 80-96, 133-152: mismatch with j > 0, the pattern is shifted
ScanMismatchShift(c) ==
    /\ pc[c] = "scan"
    /\ LoopCond(c)
    /\ ~Match(c)
    /\ j[c] > 0
    /\ LET cmp == NextComparisons(comparisons[c])
           sn  == Snapshot(heap, c)
           fv  == At(failure[c], j[c] - 1)
           st  == CompareStep(c, cmp, sn[1],
                     Sprintf("Mismatch, shift",
                             <<i[c], At(text[c], i[c]), j[c], At(pattern[c], j[c]),
                               fv, fv>>), fv)
           jn  == MismatchShift(failure[c], j[c])
           sn2 == Snapshot(sn[2], c)
       IN  /\ comparisons' = [comparisons EXCEPT ![c] = cmp]
           /\ steps' = [steps EXCEPT ![c] =
                 Append(Append(@, st), ShiftStep(c, jn, cmp, sn2[1]))]
           /\ heap' = sn2[2]
           /\ j' = [j EXCEPT ![c] = jn]
    /\ UNCHANGED <<pc, text, pattern, failure, bi, bj, positions, i,
                   maxPrefix, result>>

\* lines 80-96, 153-159: mismatch with j == 0, the text cursor advances
ScanMismatchZero(c) ==
    /\ pc[c] = "scan"
    /\ LoopCond(c)
    /\ ~Match(c)
    /\ ~(j[c] > 0)
    /\ LET cmp == NextComparisons(comparisons[c])
           sn  == Snapshot(heap, c)
           st  == CompareStep(c, cmp, sn[1],
                     Sprintf("Mismatch, no prefix",
                             <<i[c], At(text[c], i[c]), At(pattern[c], 0),
                               i[c] + 1>>), 0)
       IN  /\ comparisons' = [comparisons EXCEPT ![c] = cmp]
           /\ steps' = [steps EXCEPT ![c] = Append(@, st)]
           /\ heap' = sn[2]
    /\ i' = [i EXCEPT ![c] = @ + 1]
    /\ UNCHANGED <<pc, text, pattern, failure, bi, bj, positions, j,
                   maxPrefix, result>>

\* lines 162-168: the loop is left and the result is returned
ScanReturn(c) ==
    /\ pc[c] = "scan"
    /\ ~LoopCond(c)
    /\ result' = [result EXCEPT ![c] =
          [FailureFunction |-> failure[c], Steps |-> steps[c],
           Found |-> Len(positions[c]) > 0, Positions |-> positions[c],
           Comparisons |-> comparisons[c], Error |-> ""]]
    /\ pc' = [pc EXCEPT ![c] = "done"]
    /\ UNCHANGED <<text, pattern, failure, bi, bj, positions, steps,
                   comparisons, i, j, maxPrefix, heap>>

Next ==
    \/ \E c \in Calls : Reject(c)
    \/ \E c \in Calls : BuildStart(c)
    \/ \E c \in Calls : BuildMatch(c)
    \/ \E c \in Calls : BuildMismatch(c)
    \/ \E c \in Calls : BuildFallback(c)
    \/ \E c \in Calls : BuildSettle(c)
    \/ \E c \in Calls : BuildReturn(c)
    \/ \E c \in Calls : ScanMatch(c)
    \/ \E c \in Calls : ScanMismatchShift(c)
    \/ \E c \in Calls : ScanMismatchZero(c)
    \/ \E c \in Calls : ScanReturn(c)

\* a single invocation
Spec == Init /\ [][Next]_vars

\* a single invocation that is not suspended: searchKMP runs to completion
\* within the handler's goroutine, without yield points
FairSpec == Init /\ [][Next]_vars /\ WF_vars(Next)

\* two invocations with the same arguments, interleaved in any order
PairSpec == InitPair /\ [][Next]_vars

(***************************************************************************)
(* Reference definitions for the properties: what the results are compared *)
(* with.  None of them is used by the actions.                             *)
(***************************************************************************)
\* the call has returned a result without error
Returned(c) == pc[c] = "done" /\ result[c].Error = ""

\* the call is past buildFailureFunction: failure holds the returned table
TableBuilt(c) == pc[c] = "scan" \/ Returned(c)

\* t[q .. q+Len(p)-1] == p, 0-based
OccursAt(t, p, q) ==
    /\ 0 <= q
    /\ q + Len(p) <= Len(t)
    /\ \A x \in 1..Len(p) : t[q + x] = p[x]

\* the brute-force scan: every start index tried, left to right
RECURSIVE BruteForceFrom(_, _, _)
BruteForceFrom(t, p, q) ==
    IF q + Len(p) > Len(t) THEN <<>>
    ELSE IF OccursAt(t, p, q) THEN <<q>> \o BruteForceFrom(t, p, q + 1)
    ELSE BruteForceFrom(t, p, q + 1)

BruteForce(t, p) == BruteForceFrom(t, p, 0)

\* b is the length of a proper border of p[0..k]
IsBorder(p, k, b) ==
    /\ 0 <= b
    /\ b <= k
    /\ \A x \in 1..b : p[x] = p[k + 1 - b + x]

\* the length of the longest proper border of p[0..k]
LongestBorder(p, k) ==
    CHOOSE b \in 0..k :
        /\ IsBorder(p, k, b)
        /\ \A b2 \in 0..k : IsBorder(p, k, b2) => b2 <= b

\* the snapshot a step carries
SnapshotOf(st) == heap[st.PrefixFunction]

\* a step with its snapshot by value
StepValue(st) == [st EXCEPT !.PrefixFunction = SnapshotOf(st)]

\* a result with every step's snapshot by value
ResultValue(c) ==
    [result[c] EXCEPT !.Steps = [k \in 1..Len(@) |-> StepValue(@[k])]]

(***************************************************************************)
(* C1: for non-empty text and pattern, the Positions returned by searchKMP *)
(* are exactly the ascending list of all occurrences a brute-force scan    *)
(* finds, overlapping ones included ("aaaa", "aa" gives [0,1,2]), and      *)
(* Found is true exactly when that list is non-empty.                      *)
(***************************************************************************)
C1_PositionsAreBruteForce ==
    \A c \in Calls :
        Returned(c) =>
            /\ result[c].Positions = BruteForce(text[c], pattern[c])
            /\ result[c].Found = (BruteForce(text[c], pattern[c]) # <<>>)
            /\ (text[c] = <<97, 97, 97, 97>> /\ pattern[c] = <<97, 97>>
                  => result[c].Positions = <<0, 1, 2>>)

C1_Witness ==
    /\ Returned(1)
    /\ text[1] = <<97, 97, 97, 97>>
    /\ pattern[1] = <<97, 97>>
    /\ result[1].Positions = <<0, 1, 2>>
    /\ result[1].Found

(***************************************************************************)
(* C2: at every point of the scan, every index p already appended to       *)
(* positions satisfies 0 <= p <= len(text)-len(pattern) and                *)
(* text[p..p+len(pattern)-1] == pattern.                                   *)
(***************************************************************************)
C2_ReportedPositionsMatch ==
    \A c \in Calls :
        \A k \in 1..Len(positions[c]) :
            /\ 0 <= positions[c][k]
            /\ positions[c][k] <= n(c) - m(c)
            /\ OccursAt(text[c], pattern[c], positions[c][k])

C2_Witness ==
    /\ pc[1] = "scan"
    /\ LoopCond(1)
    /\ Len(positions[1]) >= 2
    /\ m(1) >= 2

(***************************************************************************)
(* C3: for every non-empty pattern and every position k, the table         *)
(* returned by buildFailureFunction has at k the length of the longest     *)
(* proper prefix of pattern[0..k] that is also a suffix of it (for         *)
(* "ABABCABAB" the table is [0,0,1,2,0,1,2,3,4]).                          *)
(***************************************************************************)
C3_FailureIsLongestBorder ==
    \A c \in Calls :
        TableBuilt(c) =>
            /\ \A k \in 0..(m(c) - 1) :
                  At(failure[c], k) = LongestBorder(pattern[c], k)
            /\ (pattern[c] = ScenarioPattern
                  => failure[c] = <<0, 0, 1, 2, 0, 1, 2, 3, 4>>)

C3_Witness ==
    /\ pc[1] = "scan"
    /\ pattern[1] = ScenarioPattern
    /\ failure[1] = <<0, 0, 1, 2, 0, 1, 2, 3, 4>>

(***************************************************************************)
(* C4: for every non-empty pattern, the table returned by                  *)
(* buildFailureFunction has length len(pattern), failure[0] == 0 and       *)
(* 0 <= failure[k] <= k for every k.                                       *)
(***************************************************************************)
C4_FailureTableShape ==
    \A c \in Calls :
        TableBuilt(c) =>
            /\ Len(failure[c]) = m(c)
            /\ At(failure[c], 0) = 0
            /\ \A k \in 0..(m(c) - 1) :
                  0 <= At(failure[c], k) /\ At(failure[c], k) <= k

C4_Witness ==
    /\ pc[1] = "scan"
    /\ m(1) >= 4
    /\ At(failure[1], m(1) - 1) = m(1) - 1
    /\ At(failure[1], 0) = 0

(***************************************************************************)
(* C5: with an empty pattern (whatever the text, an empty text included)   *)
(* searchKMP returns a result carrying only the empty-pattern error, and   *)
(* with an empty text and a non-empty pattern a result carrying only the   *)
(* empty-text error; in both cases nothing is scanned: no failure table,   *)
(* no steps, no positions, Found false and Comparisons 0.                  *)
(***************************************************************************)
C5_EmptyInputsAreRejected ==
    \A c \in Calls :
        (pc[c] = "done" /\ (pattern[c] = <<>> \/ text[c] = <<>>)) =>
            /\ result[c].Error = IF pattern[c] = <<>>
                                 THEN "Pattern cannot be empty"
                                 ELSE "Text cannot be empty"
            /\ result[c].FailureFunction = <<>>
            /\ result[c].Steps = <<>>
            /\ result[c].Positions = <<>>
            /\ ~result[c].Found
            /\ result[c].Comparisons = 0
            /\ failure[c] = <<>>
            /\ steps[c] = <<>>
            /\ positions[c] = <<>>
            /\ comparisons[c] = 0
            /\ maxPrefix[c] = 0

C5_Witness ==
    /\ pc[1] = "done"
    /\ pattern[1] = <<>>
    /\ text[1] = <<>>
    /\ result[1].Error = "Pattern cannot be empty"

(***************************************************************************)
(* C6: for non-empty text and pattern, the Comparisons of the returned     *)
(* result equals the Comparisons of the last emitted step, and the         *)
(* Comparisons of the steps never decrease along the step sequence.        *)
(***************************************************************************)
C6_ComparisonsOfLastStep ==
    \A c \in Calls :
        /\ \A k \in 1..(Len(steps[c]) - 1) :
              steps[c][k].Comparisons <= steps[c][k + 1].Comparisons
        /\ Returned(c) =>
              /\ result[c].Steps # <<>>
              /\ result[c].Comparisons =
                    result[c].Steps[Len(result[c].Steps)].Comparisons
              /\ \A k \in 1..(Len(result[c].Steps) - 1) :
                    result[c].Steps[k].Comparisons
                       <= result[c].Steps[k + 1].Comparisons

C6_Witness ==
    /\ Returned(1)
    /\ \E k \in 1..(Len(result[1].Steps) - 1) :
          /\ result[1].Steps[k].Shift
          /\ ~result[1].Steps[k].Match
          /\ result[1].Steps[k + 1].Comparisons > result[1].Steps[k].Comparisons
    /\ result[1].Comparisons = result[1].Steps[Len(result[1].Steps)].Comparisons

(***************************************************************************)
(* C7: the step sequence is append-only and every step holds its own copy  *)
(* of the snapshot: no later iteration changes any field of an emitted     *)
(* step, nor any entry of its PrefixFunction array.                        *)
(***************************************************************************)
C7_EmittedStepsNeverChange ==
    [][\A c \in Calls :
          /\ Len(steps'[c]) >= Len(steps[c])
          /\ \A k \in 1..Len(steps[c]) :
                /\ steps'[c][k] = steps[c][k]
                /\ heap'[steps[c][k].PrefixFunction]
                      = heap[steps[c][k].PrefixFunction]]_vars

\* a full match has relabelled an entry of maxPrefix that an earlier step had
\* captured with another value, and that step still has the value it captured
C7_Witness ==
    /\ pc[1] = "scan"
    /\ \E k \in 1..Len(steps[1]) : \E k2 \in 1..Len(steps[1]) : \E x \in 0..(n(1) - 1) :
          /\ k < k2
          /\ steps[1][k2].Match /\ steps[1][k2].Shift
          /\ steps[1][k].Match /\ steps[1][k].TextIndex = x
          /\ At(SnapshotOf(steps[1][k]), x) = steps[1][k].PatternIndex + 1
          /\ At(heap[maxPrefix[1]], x) # At(SnapshotOf(steps[1][k]), x)

(***************************************************************************)
(* C8: for non-empty text and pattern the scan loop terminates, with the   *)
(* text cursor i equal to len(text).                                       *)
(***************************************************************************)
C8_ScanTerminates ==
    \A c \in Calls :
        (pc[c] = "start" /\ text[c] # <<>> /\ pattern[c] # <<>>)
            ~> (pc[c] = "done" /\ i[c] = n(c))

\* a run with a mismatch-with-shift iteration has ended at the end of the text
C8_Witness ==
    /\ Returned(1)
    /\ i[1] = n(1)
    /\ \E k \in 1..Len(steps[1]) : steps[1][k].Shift /\ ~steps[1][k].Match

(***************************************************************************)
(* C9: two invocations of searchKMP with the same text and pattern, run    *)
(* one after the other or interleaved, return identical results: failure   *)
(* table, steps field by field (snapshots by value), positions, Found,     *)
(* Comparisons and error.                                                  *)
(***************************************************************************)
C9_SameInputsSameResult ==
    \A c \in Calls : \A d \in Calls :
        (pc[c] = "done" /\ pc[d] = "done"
            /\ text[c] = text[d] /\ pattern[c] = pattern[d])
        => ResultValue(c) = ResultValue(d)

\* both invocations have returned after running interleaved: their snapshots
\* were allocated alternately, and a full match was found
C9_Witness ==
    /\ Returned(1) /\ Returned(2)
    /\ result[1].Found
    /\ Len(result[1].Steps) >= 3
    /\ result[1].Steps[1].PrefixFunction < result[2].Steps[1].PrefixFunction
    /\ result[2].Steps[1].PrefixFunction < result[1].Steps[2].PrefixFunction
    /\ ResultValue(1) = ResultValue(2)

(***************************************************************************)
(* C10: when the first character of a non-empty pattern occurs nowhere in  *)
(* a non-empty text of length n ("abc", "xyz"), searchKMP emits exactly n  *)
(* steps, the k-th (0-based) with TextIndex k, PatternIndex 0, Match       *)
(* false, Shift false and Comparisons k+1, and returns Found false, empty  *)
(* Positions and Comparisons n.                                            *)
(***************************************************************************)
C10_FirstCharAbsent ==
    \A c \in Calls :
        (/\ Returned(c)
         /\ \A x \in 1..n(c) : text[c][x] # pattern[c][1])
        => /\ Len(result[c].Steps) = n(c)
           /\ \A k \in 0..(n(c) - 1) :
                 /\ result[c].Steps[k + 1].TextIndex = k
                 /\ result[c].Steps[k + 1].PatternIndex = 0
                 /\ ~result[c].Steps[k + 1].Match
                 /\ ~result[c].Steps[k + 1].Shift
                 /\ result[c].Steps[k + 1].Comparisons = k + 1
           /\ ~result[c].Found
           /\ result[c].Positions = <<>>
           /\ result[c].Comparisons = n(c)

C10_Witness ==
    /\ Returned(1)
    /\ text[1] = <<97, 98, 99>>
    /\ pattern[1] = <<120, 121, 122>>
    /\ Len(result[1].Steps) = 3
    /\ result[1].Comparisons = 3

(***************************************************************************)
(* Reference definitions on the step sequence.                             *)
(***************************************************************************)
\* the step that marks a full match
IsFullMatchStep(st) == st.Match /\ st.Shift

\* the step that narrates the realignment after a mismatch with j > 0
IsShiftStep(st) == ~st.Match /\ st.Shift

\* the step of one comparison of text[i] with pattern[j]
IsCompareStep(st) == ~st.Shift

\* text position x lies in the span a full-match step has relabelled
InMatchedSpan(c, st, x) ==
    /\ st.TextIndex - m(c) + 1 <= x
    /\ x <= st.TextIndex

(***************************************************************************)
(* C11 as claimed: for every text position x, PrefixFunction[x] never      *)
(* decreases from one emitted step to any later emitted step of the run.   *)
(***************************************************************************)
C11_SnapshotNeverDecreases ==
    \A c \in Calls :
        \A k \in 1..Len(steps[c]) : \A k2 \in 1..Len(steps[c]) :
            k < k2 =>
                \A x \in 0..(n(c) - 1) :
                    At(SnapshotOf(steps[c][k]), x)
                        <= At(SnapshotOf(steps[c][k2]), x)

(***************************************************************************)
(* C11 as amended: for every text position x, PrefixFunction[x] does not   *)
(* decrease from an emitted step to the next one, except at the positions  *)
(* inside the span relabelled by a full-match step (the later step has     *)
(* Match and Shift true and x is in its matched span), where the value may *)
(* become smaller.                                                         *)
(***************************************************************************)
C11_SnapshotDecreasesOnlyByRelabel ==
    \A c \in Calls :
        \A k \in 1..(Len(steps[c]) - 1) :
            \A x \in 0..(n(c) - 1) :
                At(SnapshotOf(steps[c][k]), x) > At(SnapshotOf(steps[c][k + 1]), x)
                    => /\ IsFullMatchStep(steps[c][k + 1])
                       /\ InMatchedSpan(c, steps[c][k + 1], x)

\* a full-match step has lowered an entry, and a later comparison step has
\* kept the lowered entry and raised another one
C11_Witness ==
    \E k \in 2..(Len(steps[1]) - 1) : \E x \in 0..(n(1) - 1) : \E y \in 0..(n(1) - 1) :
        /\ IsFullMatchStep(steps[1][k])
        /\ At(SnapshotOf(steps[1][k - 1]), x) > At(SnapshotOf(steps[1][k]), x)
        /\ IsCompareStep(steps[1][k + 1])
        /\ At(SnapshotOf(steps[1][k + 1]), x) = At(SnapshotOf(steps[1][k]), x)
        /\ At(SnapshotOf(steps[1][k + 1]), y) > At(SnapshotOf(steps[1][k]), y)

(***************************************************************************)
(* C12: in the full-match step emitted for a match starting at p, the      *)
(* snapshot has PrefixFunction[p+t] == t+1 for every 0 <= t < len(pattern),*)
(* and every entry outside the span p..p+len(pattern)-1 has the value it   *)
(* has in the step emitted immediately before.                             *)
(***************************************************************************)
C12_FullMatchSnapshot ==
    \A c \in Calls :
        \A k \in 1..Len(steps[c]) :
            IsFullMatchStep(steps[c][k]) =>
                LET p == steps[c][k].TextIndex - m(c) + 1
                IN  /\ k > 1
                    /\ p >= 0
                    /\ \A t \in 0..(m(c) - 1) :
                          At(SnapshotOf(steps[c][k]), p + t) = t + 1
                    /\ \A x \in 0..(n(c) - 1) :
                          ~InMatchedSpan(c, steps[c][k], x)
                             => At(SnapshotOf(steps[c][k]), x)
                                   = At(SnapshotOf(steps[c][k - 1]), x)

\* a full-match step of a pattern of two or more characters whose span has an
\* entry that differs from the step before, with a non-zero entry outside it
C12_Witness ==
    \E k \in 2..Len(steps[1]) : \E x \in 0..(n(1) - 1) : \E y \in 0..(n(1) - 1) :
        /\ IsFullMatchStep(steps[1][k])
        /\ m(1) >= 2
        /\ InMatchedSpan(1, steps[1][k], x)
        /\ At(SnapshotOf(steps[1][k]), x) # At(SnapshotOf(steps[1][k - 1]), x)
        /\ ~InMatchedSpan(1, steps[1][k], y)
        /\ At(SnapshotOf(steps[1][k]), y) > 0

(***************************************************************************)
(* C13: full-match steps correspond one-to-one, in order, with the         *)
(* reported positions: the q-th step with Match and Shift true belongs to  *)
(* the q-th position p; it directly follows the match step with TextIndex  *)
(* p+m-1 and PatternIndex m-1, has the same Comparisons as that step,      *)
(* FailureValue failure[m-1] and HighlightPrefixIndex -1; the next step,   *)
(* if any, is a comparison with TextIndex p+m and PatternIndex             *)
(* failure[m-1].  No other step has both Match and Shift true.             *)
(***************************************************************************)
FullCount(s, k) == Cardinality({x \in 1..k : IsFullMatchStep(s[x])})

C13_FullMatchStepsArePositions ==
    \A c \in Calls :
        /\ FullCount(steps[c], Len(steps[c])) = Len(positions[c])
        /\ \A k \in 1..Len(steps[c]) :
              IsFullMatchStep(steps[c][k]) =>
                 LET p  == positions[c][FullCount(steps[c], k)]
                     fv == At(failure[c], m(c) - 1)
                 IN  /\ k > 1
                     /\ steps[c][k - 1].Match
                     /\ ~steps[c][k - 1].Shift
                     /\ steps[c][k - 1].TextIndex = p + m(c) - 1
                     /\ steps[c][k - 1].PatternIndex = m(c) - 1
                     /\ steps[c][k].Comparisons = steps[c][k - 1].Comparisons
                     /\ steps[c][k].FailureValue = fv
                     /\ steps[c][k].HighlightPrefixIndex = -1
                     /\ k < Len(steps[c]) =>
                           /\ IsCompareStep(steps[c][k + 1])
                           /\ steps[c][k + 1].TextIndex = p + m(c)
                           /\ steps[c][k + 1].PatternIndex = fv
        /\ \A k \in 1..Len(steps[c]) :
              (/\ IsCompareStep(steps[c][k])
               /\ steps[c][k].Match
               /\ steps[c][k].PatternIndex = m(c) - 1)
              => /\ k < Len(steps[c])
                 /\ IsFullMatchStep(steps[c][k + 1])

\* two overlapping matches of a pattern with failure[m-1] > 0 were reported,
\* and the scan went on after the second one
C13_Witness ==
    /\ Returned(1)
    /\ Len(positions[1]) = 2
    /\ positions[1][2] < positions[1][1] + m(1)
    /\ At(failure[1], m(1) - 1) > 0
    /\ \E k \in 1..(Len(steps[1]) - 1) :
          IsFullMatchStep(steps[1][k]) /\ FullCount(steps[1], k) = 2

(***************************************************************************)
(* C14: a mismatch at text cursor i with pattern cursor j > 0 emits        *)
(* exactly two consecutive steps with the same TextIndex i, the same       *)
(* Comparisons, the same snapshot and HighlightPrefixIndex i: first a step *)
(* with Match false, Shift false, PatternIndex j and FailureValue          *)
(* failure[j-1], then a step with Match false, Shift true and PatternIndex *)
(* failure[j-1] < j; the text cursor does not advance and the next         *)
(* comparison is text[i] against pattern[failure[j-1]].                    *)
(***************************************************************************)
IsMismatchWithPrefix(st) == IsCompareStep(st) /\ ~st.Match /\ st.PatternIndex > 0

C14_MismatchShiftPair ==
    \A c \in Calls :
        \A k \in 1..Len(steps[c]) :
            /\ IsMismatchWithPrefix(steps[c][k]) =>
                  LET a  == steps[c][k]
                      fv == At(failure[c], a.PatternIndex - 1)
                  IN  /\ At(text[c], a.TextIndex) # At(pattern[c], a.PatternIndex)
                      /\ a.FailureValue = fv
                      /\ a.HighlightPrefixIndex = a.TextIndex
                      /\ fv < a.PatternIndex
                      /\ k + 1 <= Len(steps[c])
                      /\ IsShiftStep(steps[c][k + 1])
                      /\ steps[c][k + 1].TextIndex = a.TextIndex
                      /\ steps[c][k + 1].PatternIndex = fv
                      /\ steps[c][k + 1].Comparisons = a.Comparisons
                      /\ steps[c][k + 1].HighlightPrefixIndex = a.TextIndex
                      /\ SnapshotOf(steps[c][k + 1]) = SnapshotOf(a)
                      /\ k + 2 <= Len(steps[c]) =>
                            /\ IsCompareStep(steps[c][k + 2])
                            /\ steps[c][k + 2].TextIndex = a.TextIndex
                            /\ steps[c][k + 2].PatternIndex = fv
                      /\ k + 1 = Len(steps[c]) =>
                            /\ pc[c] = "scan"
                            /\ i[c] = a.TextIndex
                            /\ j[c] = fv
            /\ IsShiftStep(steps[c][k]) =>
                  /\ k > 1
                  /\ IsMismatchWithPrefix(steps[c][k - 1])

\* a mismatch at j >= 2 with failure[j-1] > 0, its two steps just emitted
C14_Witness ==
    /\ pc[1] = "scan"
    /\ Len(steps[1]) >= 2
    /\ IsShiftStep(steps[1][Len(steps[1])])
    /\ steps[1][Len(steps[1]) - 1].PatternIndex >= 2
    /\ steps[1][Len(steps[1])].PatternIndex > 0
    /\ j[1] = steps[1][Len(steps[1])].PatternIndex
    /\ i[1] = steps[1][Len(steps[1])].TextIndex

(***************************************************************************)
(* C15: every step emitted for a successful comparison of text[i] with     *)
(* pattern[j] has Match true, Shift false, TextIndex i, PatternIndex j,    *)
(* HighlightPrefixIndex i and a snapshot whose entry at i is j+1 (the      *)
(* update made by this match included), after which both cursors advance   *)
(* by one.                                                                 *)
(***************************************************************************)
C15_MatchStep ==
    \A c \in Calls :
        \A k \in 1..Len(steps[c]) :
            LET st == steps[c][k]
            IN  /\ IsCompareStep(st) =>
                      st.Match = (At(text[c], st.TextIndex)
                                     = At(pattern[c], st.PatternIndex))
                /\ (IsCompareStep(st) /\ st.Match) =>
                      /\ st.HighlightPrefixIndex = st.TextIndex
                      /\ At(SnapshotOf(st), st.TextIndex) = st.PatternIndex + 1
                      \* the cursors after the step: i+1 and j+1, seen in the
                      \* variables when the step is the last one, in the next
                      \* comparison otherwise (when j+1 = m the full-match step
                      \* comes in between and resets j)
                      /\ st.PatternIndex + 1 < m(c) =>
                            /\ k = Len(steps[c]) =>
                                  /\ i[c] = st.TextIndex + 1
                                  /\ j[c] = st.PatternIndex + 1
                            /\ k < Len(steps[c]) =>
                                  /\ IsCompareStep(steps[c][k + 1])
                                  /\ steps[c][k + 1].TextIndex = st.TextIndex + 1
                                  /\ steps[c][k + 1].PatternIndex = st.PatternIndex + 1
                      /\ st.PatternIndex + 1 = m(c) =>
                            /\ k < Len(steps[c])
                            /\ IsFullMatchStep(steps[c][k + 1])
                            /\ k + 1 = Len(steps[c]) => i[c] = st.TextIndex + 1
                            /\ k + 1 < Len(steps[c]) =>
                                  steps[c][k + 2].TextIndex = st.TextIndex + 1

\* a match at pattern cursor 1 after a shift, the step just emitted
C15_Witness ==
    /\ pc[1] = "scan"
    /\ Len(steps[1]) >= 3
    /\ IsCompareStep(steps[1][Len(steps[1])])
    /\ steps[1][Len(steps[1])].Match
    /\ steps[1][Len(steps[1])].PatternIndex = 1
    /\ At(SnapshotOf(steps[1][Len(steps[1])]), steps[1][Len(steps[1])].TextIndex) = 2
    /\ i[1] = steps[1][Len(steps[1])].TextIndex + 1
    /\ j[1] = 2
    /\ \E k \in 1..Len(steps[1]) : IsShiftStep(steps[1][k])

(***************************************************************************)
(* C16: the work of a run is linear in the text length n: the comparison   *)
(* counter never exceeds 2*n, and the number of emitted steps is at least  *)
(* n and at most 4*n.                                                      *)
(***************************************************************************)
C16_LinearWork ==
    \A c \in Calls :
        /\ pc[c] = "scan" =>
              /\ comparisons[c] <= 2 * n(c)
              /\ Len(steps[c]) <= 4 * n(c)
        /\ Returned(c) =>
              /\ result[c].Comparisons <= 2 * n(c)
              /\ Len(result[c].Steps) >= n(c)
              /\ Len(result[c].Steps) <= 4 * n(c)

\* a run with shifts and full matches: more comparisons than text characters
\* and more than twice as many steps
C16_Witness ==
    /\ Returned(1)
    /\ n(1) >= 4
    /\ result[1].Comparisons > n(1)
    /\ Len(result[1].Steps) > 2 * n(1)

(***************************************************************************)
(* C17: no index is out of range during a run on non-empty inputs: at      *)
(* every comparison of searchKMP 0 <= i < len(text) and 0 <= j <           *)
(* len(pattern), failure[j-1] is read only when j >= 1, in                 *)
(* buildFailureFunction 0 <= j < i at every read of pattern[j], and every  *)
(* emitted step has 0 <= TextIndex < len(text), 0 <= PatternIndex <        *)
(* len(pattern) and a snapshot of length len(text).                        *)
(***************************************************************************)
C17_IndicesInRange ==
    \A c \in Calls :
        \* the reads of pattern[i], pattern[j] at lines 42, 46, 49
        /\ (pc[c] = "build" /\ bi[c] < m(c)) \/ pc[c] = "fallback" =>
              /\ 0 <= bj[c] /\ bj[c] < bi[c]
              /\ 1 <= bi[c] /\ bi[c] < m(c)
              /\ Len(failure[c]) = m(c)
        \* the comparison at line 81; the reads of failure[j-1] at lines 123-131
        \* (j = m there) and 135-139 (j > 0 there)
        /\ pc[c] = "scan" =>
              /\ m(c) >= 1
              /\ Len(failure[c]) = m(c)
              /\ 0 <= i[c] /\ i[c] <= n(c)
              /\ 0 <= j[c] /\ j[c] < m(c)
              /\ Len(heap[maxPrefix[c]]) = n(c)
        /\ \A k \in 1..Len(steps[c]) :
              /\ 0 <= steps[c][k].TextIndex /\ steps[c][k].TextIndex < n(c)
              /\ 0 <= steps[c][k].PatternIndex /\ steps[c][k].PatternIndex < m(c)
              /\ Len(SnapshotOf(steps[c][k])) = n(c)
              /\ (IsFullMatchStep(steps[c][k]) \/ IsMismatchWithPrefix(steps[c][k]))
                    => steps[c][k].FailureValue \in 0..(m(c) - 1)

\* the last text character is about to be compared with the last pattern
\* character, after a full match
C17_Witness ==
    /\ pc[1] = "scan"
    /\ i[1] = n(1) - 1
    /\ j[1] = m(1) - 1
    /\ m(1) >= 2
    /\ \E k \in 1..Len(steps[1]) : IsFullMatchStep(steps[1][k])

(***************************************************************************)
(* C18: loop invariant of the scan: at the start of every iteration j <= i *)
(* and pattern[0..j-1] == text[i-j..i-1]; this holds after a match, after  *)
(* a mismatch shift and after the reset that follows a full match.         *)
(***************************************************************************)
C18_ScanLoopInvariant ==
    \A c \in Calls :
        pc[c] = "scan" =>
            /\ j[c] <= i[c]
            /\ \A x \in 0..(j[c] - 1) :
                  At(pattern[c], x) = At(text[c], i[c] - j[c] + x)

\* the head of an iteration with j > 0 right after the reset of a full match
\* of a pattern of three characters
C18_Witness ==
    /\ pc[1] = "scan"
    /\ LoopCond(1)
    /\ j[1] > 0
    /\ m(1) >= 3
    /\ Len(steps[1]) >= 1
    /\ IsFullMatchStep(steps[1][Len(steps[1])])

(***************************************************************************)
(* C19: the comparison counter counts exactly the comparison steps: the    *)
(* Comparisons of a step equals the number of steps with Shift false       *)
(* emitted up to and including it, so a step with Shift false has          *)
(* Comparisons one greater than the step before it (1 for the first step)  *)
(* and a step with Shift true has the Comparisons of the step before it.   *)
(***************************************************************************)
CompareCount(s, k) == Cardinality({x \in 1..k : IsCompareStep(s[x])})

C19_ComparisonsCountCompareSteps ==
    \A c \in Calls :
        /\ \A k \in 1..Len(steps[c]) :
              /\ steps[c][k].Comparisons = CompareCount(steps[c], k)
              /\ steps[c][k].Comparisons =
                    (IF k = 1 THEN 0 ELSE steps[c][k - 1].Comparisons)
                       + (IF IsCompareStep(steps[c][k]) THEN 1 ELSE 0)
        /\ pc[c] = "scan" =>
              comparisons[c] = CompareCount(steps[c], Len(steps[c]))

\* a returned run with a full-match step and a shift step, in which the
\* counter is smaller than the number of steps
C19_Witness ==
    /\ Returned(1)
    /\ \E k \in 1..Len(steps[1]) : IsFullMatchStep(steps[1][k])
    /\ \E k \in 1..Len(steps[1]) : IsShiftStep(steps[1][k])
    /\ result[1].Comparisons = CompareCount(steps[1], Len(steps[1]))
    /\ result[1].Comparisons + 2 <= Len(result[1].Steps)

====
